---- MODULE Spec2Model ----
(***************************************************************************)
(* A model of programl/util/py/progress.py: the ProfileTimer stopwatch,    *)
(* the Profile context manager, and the Run() poll loop that drives a      *)
(* Progress job thread and watches it for stalls.                          *)
(*                                                                         *)
(* Time is a discrete clock `now`.  The polling thread's statements take   *)
(* no time; the clock advances only while the polling thread is blocked in *)
(* progress.join(refresh_time).  The worker     *)
(* thread's steps interleave freely with every statement of Run().         *)
(***************************************************************************)
EXTENDS Integers, Sequences, FiniteSets, TLC

\* ---------------------------------------------------------------- bounds
MaxTime == 6        \* the clock stops advancing here
MaxPatience == 2    \* patience is drawn from 0..MaxPatience
MaxRefresh == 2     \* refresh_time is drawn from 1..MaxRefresh
MaxI == 2           \* the worker writes values 0..MaxI to ctx.i

None == -1          \* Python's None, for the optional timestamps

Max(a, b) == IF a >= b THEN a ELSE b
Min(a, b) == IF a <= b THEN a ELSE b

VARIABLES
    now,            \* the wall clock (time.time(), datetime.utcnow())
    \* ---- Run(progress, refresh_time, patience)
    pc,             \* the polling thread's position in Run()
    thread,         \* the job thread: "unstarted", "running", "done"
    overridden,     \* whether the job's class overrides Progress.Run
    i,              \* progress.ctx.i
    bar_n,          \* progress.ctx.bar.n
    closeCount,     \* number of calls of progress.ctx.bar.close()
    patience,       \* argument of Run()
    refresh_time,   \* argument of Run()
    last_i,         \* local of Run()
    last_progress,  \* local of Run()
    current_time,   \* local of Run()
    joinLeft,       \* time left before join(refresh_time) times out
    ret,            \* the value Run() returned
    mainExc,        \* the exception Run() raised
    workerExc,      \* the exception that ended the job thread
    \* ---- history of the run, read by the properties only
    loopStart,      \* the clock when Run() took its first timestamp
    writeKind,      \* "none", "inc1", "up", "any": the worker's writes so far
    idle,           \* time since ctx.i last changed while the job runs (capped)
    maxIdle,        \* the longest such time so far (capped)
    iterRefreshed,  \* whether the current loop iteration called Refresh()
    \* ---- Profile(name, print_to)
    ppc,            \* position of the Profile scope
    name,           \* local `name` of Profile()
    tstart,         \* timer.start
    tend,           \* timer.end
    stopCalls,      \* number of calls of timer.Stop() so far (capped)
    sink,           \* the calls the sink print_to received, in order
    bodyExc,        \* the exception the enclosed code raised
    outExc          \* the exception that left the with statement

runVars == <<pc, thread, overridden, i, bar_n, closeCount, patience,
             refresh_time, last_i, last_progress, current_time, joinLeft,
             ret, mainExc, workerExc, loopStart, writeKind, idle, maxIdle,
             iterRefreshed>>
profVars == <<ppc, name, tstart, tend, stopCalls, sink, bodyExc, outExc>>
vars == <<now, runVars, profVars>>

NoExc == [type |-> "none", seconds |-> 0]
JobObject == "progress"
\* progress.ctx.n, the job's target
n == MaxI
IdleCap == MaxPatience + 1

\* ------------------------------------------------------------ ProfileTimer
\* ProfileTimer.Stop: the value of self.end after the call.
TimerStopAlways(end, clock) == clock
TimerStop(end, clock) == IF end # None THEN end ELSE clock

\* ProfileTimer.elapsed, in clock units.
ElapsedOf(start, end, clock) == IF end # None THEN end - start ELSE clock - start
Elapsed == ElapsedOf(tstart, tend, now)

\* -------------------------------------------------------------- Run state
RunInit ==
    /\ pc = "start"
    /\ thread = "unstarted"
    /\ overridden \in BOOLEAN
    /\ i = 0
    /\ bar_n = i
    /\ closeCount = 0
    /\ patience \in 0..MaxPatience
    /\ refresh_time \in 1..MaxRefresh
    /\ last_i = None
    /\ last_progress = None
    /\ current_time = None
    /\ joinLeft = 0
    /\ ret = "none"
    /\ mainExc = NoExc
    /\ workerExc = "none"
    /\ loopStart = None
    /\ writeKind = "none"
    /\ idle = 0
    /\ maxIdle = 0
    /\ iterRefreshed = FALSE

ProfIdle ==
    /\ ppc = "unused"
    /\ name = [label |-> "", arg |-> None]
    /\ tstart = None
    /\ tend = None
    /\ stopCalls = 0
    /\ sink = <<>>
    /\ bodyExc = "none"
    /\ outExc = "none"

\* ------------------------------------------------------- the job's thread
\* How a write of v over the value old extends the history of writes:
\* "inc1" while every write added exactly 1, "up" while every write raised
\* the value, "any" once a write lowered it.
KindAfter(kind, old, v) ==
    IF v = old + 1 /\ kind \in {"none", "inc1"} THEN "inc1"
    ELSE IF v > old /\ kind \in {"none", "inc1", "up"} THEN "up"
    ELSE "any"

\* The overriding Run() of a subclass assigns self.ctx.i.
WorkerWrite(v) ==
    /\ thread = "running"
    /\ overridden
    /\ v # i
    /\ i' = v
    /\ writeKind' = KindAfter(writeKind, i, v)
    /\ idle' = 0
    /\ UNCHANGED <<now, pc, thread, overridden, bar_n, closeCount, patience,
                   refresh_time, last_i, last_progress, current_time, joinLeft,
                   ret, mainExc, workerExc, loopStart, maxIdle, iterRefreshed>>
    /\ UNCHANGED profVars

\* The overriding Run() returns: the thread ends.
WorkerFinish ==
    /\ thread = "running"
    /\ overridden
    /\ thread' = "done"
    /\ UNCHANGED <<now, pc, overridden, i, bar_n, closeCount, patience,
                   refresh_time, last_i, last_progress, current_time, joinLeft,
                   ret, mainExc, workerExc, loopStart, writeKind, idle, maxIdle,
                   iterRefreshed>>
    /\ UNCHANGED profVars

\* Where an exception raised by the job's run entry point ends up: it ends
\* the thread and is never handed to the thread that called Run().
WorkerExcLeaks(exc, mpc, mexc) == <<"raised", [type |-> exc, seconds |-> 0]>>
WorkerExcStays(exc, mpc, mexc) == <<mpc, mexc>>

\* The overriding Run() raises.
WorkerRaise ==
    /\ thread = "running"
    /\ overridden
    /\ thread' = "done"
    /\ workerExc' = "Exception"
    /\ pc' = WorkerExcStays("Exception", pc, mainExc)[1]
    /\ mainExc' = WorkerExcStays("Exception", pc, mainExc)[2]
    /\ UNCHANGED <<now, overridden, i, bar_n, closeCount, patience,
                   refresh_time, last_i, last_progress, current_time, joinLeft,
                   ret, loopStart, writeKind, idle, maxIdle, iterRefreshed>>
    /\ UNCHANGED profVars

\* Progress.Run of the base class: raise NotImplementedError("abstract class").
AbstractRun ==
    /\ thread = "running"
    /\ ~overridden
    /\ thread' = "done"
    /\ workerExc' = "NotImplementedError"
    /\ pc' = WorkerExcStays("NotImplementedError", pc, mainExc)[1]
    /\ mainExc' = WorkerExcStays("NotImplementedError", pc, mainExc)[2]
    /\ UNCHANGED <<now, overridden, i, bar_n, closeCount, patience,
                   refresh_time, last_i, last_progress, current_time, joinLeft,
                   ret, loopStart, writeKind, idle, maxIdle, iterRefreshed>>
    /\ UNCHANGED profVars

\* ------------------------------------------------------------------ Run()
\* ProgressBarContext.Refresh: the value of bar.n after self.bar.n = self.i.
RefreshStale(barn, ci) == barn
Refresh(barn, ci) == ci

\* The elif of the poll loop: patience and (current_time - last_progress) > patience.
StallDetectedLate(cur, lp, p) == p # 0 /\ (cur - lp) > p + MaxRefresh
StallDetectedAlways(cur, lp, p) == (cur - lp) > p
StallDetectedEarly(cur, lp, p) == p # 0 /\ (cur - lp) >= p
StallDetected(cur, lp, p) == p # 0 /\ (cur - lp) > p

\* progress.Start()
RunStart ==
    /\ pc = "start"
    /\ thread' = "running"
    /\ pc' = "init"
    /\ UNCHANGED <<now, overridden, i, bar_n, closeCount, patience,
                   refresh_time, last_i, last_progress, current_time, joinLeft,
                   ret, mainExc, workerExc, loopStart, writeKind, idle, maxIdle,
                   iterRefreshed>>
    /\ UNCHANGED profVars

\* last_i = progress.ctx.i; last_progress = time.time()
RunTrack ==
    /\ pc = "init"
    /\ last_i' = i
    /\ last_progress' = now
    /\ loopStart' = now
    /\ pc' = "test"
    /\ UNCHANGED <<now, thread, overridden, i, bar_n, closeCount, patience,
                   refresh_time, current_time, joinLeft, ret, mainExc,
                   workerExc, writeKind, idle, maxIdle, iterRefreshed>>
    /\ UNCHANGED profVars

\* The loop head with the refresh moved in front of the stall test.
LoopTestRefreshFirst ==
    /\ pc = "test"
    /\ IF thread = "running"
       THEN /\ current_time' = now
            /\ iterRefreshed' = TRUE
            /\ bar_n' = i
            /\ pc' = "cmp"
       ELSE /\ pc' = "final"
            /\ UNCHANGED <<current_time, iterRefreshed, bar_n>>
    /\ UNCHANGED <<now, thread, overridden, i, closeCount, patience,
                   refresh_time, last_i, last_progress, joinLeft, ret, mainExc,
                   workerExc, loopStart, writeKind, idle, maxIdle>>
    /\ UNCHANGED profVars

\* while progress.is_alive(): current_time = time.time()
LoopTest ==
    /\ pc = "test"
    /\ IF thread = "running"
       THEN /\ current_time' = now
            /\ iterRefreshed' = FALSE
            /\ pc' = "cmp"
       ELSE /\ pc' = "final"
            /\ UNCHANGED <<current_time, iterRefreshed>>
    /\ UNCHANGED <<now, thread, overridden, i, bar_n, closeCount, patience,
                   refresh_time, last_i, last_progress, joinLeft, ret, mainExc,
                   workerExc, loopStart, writeKind, idle, maxIdle>>
    /\ UNCHANGED profVars

\* if progress.ctx.i != last_i: ... elif patience and ...: raise OSError(...)
LoopCompare ==
    /\ pc = "cmp"
    /\ IF i # last_i
       THEN pc' = "assign" /\ UNCHANGED mainExc
       ELSE IF StallDetected(current_time, last_progress, patience)
       THEN /\ pc' = "raised"
            /\ mainExc' = [type |-> "OSError",
                           seconds |-> current_time - last_progress]
       ELSE pc' = "refresh" /\ UNCHANGED mainExc
    /\ UNCHANGED <<now, thread, overridden, i, bar_n, closeCount, patience,
                   refresh_time, last_i, last_progress, current_time, joinLeft,
                   ret, workerExc, loopStart, writeKind, idle, maxIdle,
                   iterRefreshed>>
    /\ UNCHANGED profVars

\* The progress branch without the reset of last_progress.
LoopAssignNoReset ==
    /\ pc = "assign"
    /\ last_i' = i
    /\ pc' = "refresh"
    /\ UNCHANGED <<now, thread, overridden, i, bar_n, closeCount, patience,
                   refresh_time, last_progress, current_time, joinLeft, ret,
                   mainExc, workerExc, loopStart, writeKind, idle, maxIdle,
                   iterRefreshed>>
    /\ UNCHANGED profVars

\* last_i = progress.ctx.i; last_progress = current_time
LoopAssign ==
    /\ pc = "assign"
    /\ last_i' = i
    /\ last_progress' = current_time
    /\ pc' = "refresh"
    /\ UNCHANGED <<now, thread, overridden, i, bar_n, closeCount, patience,
                   refresh_time, current_time, joinLeft, ret, mainExc,
                   workerExc, loopStart, writeKind, idle, maxIdle,
                   iterRefreshed>>
    /\ UNCHANGED profVars

\* progress.ctx.Refresh(), then progress.join(refresh_time) starts waiting.
LoopRefresh ==
    /\ pc = "refresh"
    /\ bar_n' = Refresh(bar_n, i)
    /\ iterRefreshed' = TRUE
    /\ joinLeft' = refresh_time
    /\ pc' = "join"
    /\ UNCHANGED <<now, thread, overridden, i, closeCount, patience,
                   refresh_time, last_i, last_progress, current_time, ret,
                   mainExc, workerExc, loopStart, writeKind, idle, maxIdle>>
    /\ UNCHANGED profVars

\* progress.join(refresh_time) returns: the thread ended or the timeout ran out.
JoinReturn ==
    /\ pc = "join"
    /\ thread = "done" \/ joinLeft = 0
    /\ pc' = "test"
    /\ UNCHANGED <<now, thread, overridden, i, bar_n, closeCount, patience,
                   refresh_time, last_i, last_progress, current_time, joinLeft,
                   ret, mainExc, workerExc, loopStart, writeKind, idle, maxIdle,
                   iterRefreshed>>
    /\ UNCHANGED profVars

\* progress.ctx.Refresh() after the loop
FinalRefresh ==
    /\ pc = "final"
    /\ bar_n' = Refresh(bar_n, i)
    /\ pc' = "close"
    /\ UNCHANGED <<now, thread, overridden, i, closeCount, patience,
                   refresh_time, last_i, last_progress, current_time, joinLeft,
                   ret, mainExc, workerExc, loopStart, writeKind, idle, maxIdle,
                   iterRefreshed>>
    /\ UNCHANGED profVars

\* progress.ctx.bar.close()
BarClose ==
    /\ pc = "close"
    /\ closeCount' = closeCount + 1
    /\ pc' = "return"
    /\ UNCHANGED <<now, thread, overridden, i, bar_n, patience,
                   refresh_time, last_i, last_progress, current_time, joinLeft,
                   ret, mainExc, workerExc, loopStart, writeKind, idle, maxIdle,
                   iterRefreshed>>
    /\ UNCHANGED profVars

\* What Run() returns: the job it was given.
ReturnedNothing(job) == "None"
Returned(job) == job

\* return progress
RunReturn ==
    /\ pc = "return"
    /\ ret' = Returned(JobObject)
    /\ pc' = "returned"
    /\ UNCHANGED <<now, thread, overridden, i, bar_n, closeCount, patience,
                   refresh_time, last_i, last_progress, current_time, joinLeft,
                   mainExc, workerExc, loopStart, writeKind, idle, maxIdle,
                   iterRefreshed>>
    /\ UNCHANGED profVars

\* The clock advances while the polling thread is blocked in join() on a
\* running job, until the timeout runs out.
RunTick ==
    /\ now < MaxTime
    /\ pc = "join" /\ thread = "running" /\ joinLeft > 0
    /\ now' = now + 1
    /\ joinLeft' = joinLeft - 1
    /\ idle' = Min(idle + 1, IdleCap)
    /\ maxIdle' = Max(maxIdle, idle')
    /\ UNCHANGED <<pc, thread, overridden, i, bar_n, closeCount, patience,
                   refresh_time, last_i, last_progress, current_time, ret,
                   mainExc, workerExc, loopStart, writeKind, iterRefreshed>>
    /\ UNCHANGED profVars

RunStep ==
    \/ RunStart
    \/ RunTrack
    \/ LoopTest
    \/ LoopCompare
    \/ LoopAssign
    \/ LoopRefresh
    \/ JoinReturn
    \/ FinalRefresh
    \/ BarClose
    \/ RunReturn

WorkerStep ==
    \/ \E v \in 0..MaxI : WorkerWrite(v)
    \/ WorkerFinish
    \/ WorkerRaise
    \/ AbstractRun

\* No Run() in progress: the state the Profile scope is explored from.
RunIdle == RunInit /\ overridden /\ patience = 0 /\ refresh_time = 1

\* -------------------------------------------------------------- Profile()
MaxStops == 3       \* stopCalls is counted up to here

\* Profile(name, print_to) is called with a literal name, the default ""
\* or a callback.
ProfInit ==
    /\ ppc = "call"
    /\ name \in {[label |-> l, arg |-> None] : l \in {"", "task", "callback"}}
    /\ tstart = None
    /\ tend = None
    /\ stopCalls = 0
    /\ sink = <<>>
    /\ bodyExc = "none"
    /\ outExc = "none"

\* name = name or "completed"; timer = ProfileTimer(); yield timer
ProfileEnter ==
    /\ ppc = "call"
    /\ name' = IF name.label = "" THEN [label |-> "completed", arg |-> None]
               ELSE name
    /\ tstart' = now
    /\ tend' = None
    /\ ppc' = "body"
    /\ UNCHANGED <<now, stopCalls, sink, bodyExc, outExc>>
    /\ UNCHANGED runVars

\* The enclosed code, or the caller after the scope, calls timer.Stop().
UserStop ==
    /\ ppc \in {"body", "exited", "raised"}
    /\ stopCalls < MaxStops
    /\ tend' = TimerStop(tend, now)
    /\ stopCalls' = stopCalls + 1
    /\ UNCHANGED <<now, ppc, name, tstart, sink, bodyExc, outExc>>
    /\ UNCHANGED runVars

\* The enclosed code finishes: the generator resumes after the yield.
BodyReturn ==
    /\ ppc = "body"
    /\ ppc' = "stop"
    /\ UNCHANGED <<now, name, tstart, tend, stopCalls, sink, bodyExc, outExc>>
    /\ UNCHANGED runVars

\* The enclosed code raises: the exception is thrown into the generator at
\* the yield, which has no try around it, so the generator's remaining
\* statements are skipped and the exception leaves the with statement.
BodyRaise ==
    /\ ppc = "body"
    /\ bodyExc' = "ValueError"
    /\ outExc' = "ValueError"
    /\ ppc' = "raised"
    /\ UNCHANGED <<now, name, tstart, tend, stopCalls, sink>>
    /\ UNCHANGED runVars

\* timer.Stop()
ScopeStop ==
    /\ ppc = "stop"
    /\ tend' = TimerStop(tend, now)
    /\ stopCalls' = Min(stopCalls + 1, MaxStops)
    /\ ppc' = "resolve"
    /\ UNCHANGED <<now, name, tstart, sink, bodyExc, outExc>>
    /\ UNCHANGED runVars

\* if callable(name): name = name(timer.elapsed)
ResolveName ==
    /\ ppc = "resolve"
    /\ name' = IF name.label = "callback"
               THEN [label |-> "callback", arg |-> Elapsed]
               ELSE name
    /\ ppc' = "report"
    /\ UNCHANGED <<now, tstart, tend, stopCalls, sink, bodyExc, outExc>>
    /\ UNCHANGED runVars

\* print_to(f"{name} in {timer}")
Report ==
    /\ ppc = "report"
    /\ sink' = Append(sink, [name |-> name, duration |-> Elapsed,
                             stopped |-> tend # None])
    /\ ppc' = "exited"
    /\ UNCHANGED <<now, name, tstart, tend, stopCalls, bodyExc, outExc>>
    /\ UNCHANGED runVars

\* The clock advances.
ProfTick ==
    /\ now < MaxTime
    /\ now' = now + 1
    /\ UNCHANGED profVars
    /\ UNCHANGED runVars

InitProfile == now = 0 /\ RunIdle /\ ProfInit
NextProfile ==
    \/ ProfileEnter
    \/ UserStop
    \/ BodyReturn
    \/ BodyRaise
    \/ ScopeStop
    \/ ResolveName
    \/ Report
    \/ ProfTick
SpecProfile == InitProfile /\ [][NextProfile]_vars

Init == now = 0 /\ RunInit /\ ProfIdle
Next == RunStep \/ WorkerStep \/ RunTick
Spec == Init /\ [][Next]_vars

\* Run(progress, refresh_time, patience=0), with the polling thread scheduled
\* whenever it can take a step.
InitNoPatience == Init /\ patience = 0
SpecNoPatience == InitNoPatience /\ [][Next]_vars /\ WF_vars(RunStep)

\* ================================================================ claims
Exited == ppc \in {"exited", "raised"}
Monotone == writeKind \in {"none", "inc1", "up"}
SinceLoopStart == now - loopStart

\* C1: every Profile scope that has been left, normally or by an exception
\* of the enclosed code, has invoked the sink exactly once, and the timer
\* was stopped when it did.
C1_SinkOnceOnEveryExit ==
    Exited => Len(sink) = 1 /\ sink[1].stopped

\* C2: when the enclosed code's exception reaches the caller of the scope it
\* is the exception the code raised, the timer has been stopped and the
\* completion message has been reported to the sink.
C2_ExceptionAfterCleanup ==
    ppc = "raised" => outExc = bodyExc /\ tend # None /\ Len(sink) = 1

\* C3: with patience P > 0 and a job that stays alive and never changes
\* ctx.i, the stall error is raised at a time t after the start of the loop
\* with P <= t <= P + refresh_time, and the loop is never still polling
\* after P + refresh_time.
C3_StallWithinWindow ==
    (patience > 0 /\ loopStart # None /\ writeKind = "none" /\ thread = "running")
        => /\ SinceLoopStart <= patience + refresh_time
           /\ pc = "raised" => /\ SinceLoopStart >= patience
                               /\ mainExc.type = "OSError"
                               /\ mainExc.seconds = SinceLoopStart
C3_Witness ==
    /\ pc = "raised" /\ patience > 0 /\ writeKind = "none" /\ thread = "running"
    /\ SinceLoopStart = patience + refresh_time

\* C4: with patience = 0 Run never raises the stall error, whatever the
\* clock and ctx.i do, and once the job thread has ended Run eventually
\* returns the job it was given, with the job no longer alive.
C4_NoPatienceRunsToCompletion ==
    /\ [](patience = 0 => pc # "raised" /\ mainExc = NoExc)
    /\ (patience = 0 /\ thread = "done")
           ~> (pc = "returned" /\ ret = JobObject /\ thread = "done")
C4_Witness ==
    /\ pc = "returned" /\ patience = 0 /\ ret = JobObject
    /\ writeKind = "none" /\ workerExc = "none" /\ now >= MaxPatience + 1

\* C5: on every normal return of Run the final refresh came after the job
\* thread ended and before the bar was closed, so bar.n is the final ctx.i;
\* the bar is closed exactly once and never before that refresh.
C5_FinalRefreshBeforeClose ==
    /\ pc \in {"close", "return", "returned"} => thread = "done" /\ bar_n = i
    /\ pc = "returned" => closeCount = 1
    /\ closeCount > 0 => pc \in {"return", "returned"} /\ closeCount = 1
C5_Witness ==
    pc = "returned" /\ writeKind = "inc1" /\ i = n /\ bar_n = n /\ closeCount = 1

\* C6: a job that only ever adds 1 to ctx.i, at intervals shorter than the
\* patience window, and ends once ctx.i = n is never failed with the stall
\* error, and Run returns with ctx.i = n.
SteadyJob ==
    /\ writeKind \in {"none", "inc1"}
    /\ maxIdle < patience
    /\ workerExc = "none"
    /\ thread = "done" => i = n
C6_SteadyJobCompletes ==
    (patience > 0 /\ SteadyJob)
        => /\ pc # "raised"
           /\ pc = "returned" => i = n /\ ret = JobObject
C6_Witness ==
    /\ pc = "returned" /\ patience > 0 /\ SteadyJob /\ writeKind = "inc1"
    /\ i = n /\ now >= patience

\* C7: once the timer is stopped, further Stop calls and the clock leave end
\* and elapsed = end - start unchanged; until then elapsed = now - start.
C7_StopIdempotent ==
    [][tstart # None =>
          /\ tend # None => /\ tend' = tend
                            /\ Elapsed' = Elapsed
                            /\ Elapsed = tend - tstart
          /\ tend = None => Elapsed = now - tstart
          /\ (tend = None /\ tend' = None) => Elapsed' - Elapsed = now' - now]_vars
C7_Witness ==
    tend # None /\ stopCalls >= 2 /\ now > tend /\ tend > tstart

\* C8 as stated: with patience P > 0, a job whose counter changes at least
\* once in every window of P is never failed with the stall error, whatever
\* values it writes.
C8_AnyWritesNoFalseStall ==
    (patience > 0 /\ maxIdle < patience) => pc # "raised"

\* C8 as amended: with patience P > 0, a job whose writes only ever raise
\* ctx.i and whose counter changes at least once in every window of P is
\* never failed with the stall error.
C8_MonotoneNoFalseStall ==
    (patience > 0 /\ Monotone /\ maxIdle <= patience) => pc # "raised"
C8_Witness ==
    /\ pc = "returned" /\ patience > 0 /\ writeKind = "up"
    /\ maxIdle = patience /\ now > patience

\* C9 as stated, its first part: at the step that raises the stall error the
\* job thread is alive.
C9_AliveWhenRaised ==
    [][(pc # "raised" /\ pc' = "raised") => thread' = "running"]_vars

\* C9 as amended: the iteration that raises the stall error saw the job
\* alive at its is_alive() test and has called no Refresh; Run never stops
\* the thread and never writes ctx.i; after the error Run refreshes and
\* closes nothing.
C9_StallLeavesJobOrphaned ==
    [][/\ (pc # "cmp" /\ pc' = "cmp") => thread = "running"
       /\ (pc # "raised" /\ pc' = "raised")
              => /\ pc = "cmp" /\ ~iterRefreshed
                 /\ thread' = thread /\ i' = i
                 /\ bar_n' = bar_n /\ closeCount' = closeCount
       /\ pc = "raised"
              => /\ pc' = "raised" /\ closeCount = 0
                 /\ bar_n' = bar_n /\ closeCount' = closeCount
       /\ pc' # pc
              => /\ i' = i
                 /\ thread' # thread => pc = "start" /\ thread' = "running"]_vars
C9_Witness ==
    /\ pc = "raised" /\ thread = "running" /\ closeCount = 0
    /\ i # last_i /\ bar_n # i

====
